---------------------------- MODULE Spec2Model ----------------------------
(***************************************************************************)
(* childsize: per-directory aggregate statistics of the files beneath one  *)
(* or more root paths (src/src/lib.rs, src/src/main.rs).                   *)
(*                                                                         *)
(* Strings (paths, roots, grouping keys) are sequences of tokens: the      *)
(* separator "/" or a file-name component such as "test" or "5.txt".  The  *)
(* empty string is << >>.                                                  *)
(*                                                                         *)
(* A ByteSize wraps a u64.  The sentinel ByteSize::pib(1) = 2^50 exceeds   *)
(* the integers TLC computes with, so a byte count is kept as two limbs    *)
(* <<hi, lo>> in base 2^25 (value hi * 2^25 + lo).  The sizes the model    *)
(* folds keep every total below 2^53, where the u64 does not wrap and the  *)
(* f64 quotient of update_average truncates to the exact integer quotient. *)
(***************************************************************************)
EXTENDS Integers, Sequences, FiniteSets, TLC

VARIABLES
    pc,            \* position of the run
    opts,          \* Opts: paths, patterns, sort, reverse, show_summary
    globset,       \* the GlobSet built by walktrees / main: the compiled patterns
    summary,       \* Processor.summary (the process-wide summary of main.rs)
    entries,       \* Processor.entries / main's `entries`: key -> ChildSizeEntry
    rootIdx,       \* index in opts.paths of the root being walked
    walkPos,       \* index of the next entry the walk of that root yields
    readable,      \* history: regular files visited so far whose metadata is readable
    rows,          \* the rows printed by process, in order
    summaryBlock,  \* the SUMMARY block printed by process, if any
    prevRows,      \* history: the rows of the previous run of the report step
    acc,           \* a ChildSizeEntry folded in isolation
    folded,        \* history: the sizes folded into acc, in order
    finalized,     \* history: update_average has run on acc since the last fold
    keyPath,       \* the path handed to Processor::key
    keyBase,       \* the base handed to Processor::key
    keyResult      \* what Processor::key returned

vars == <<pc, opts, globset, summary, entries, rootIdx, walkPos, readable, rows,
          summaryBlock, prevRows, acc, folded, finalized, keyPath, keyBase, keyResult>>

runVars == <<pc, opts, globset, summary, entries, rootIdx, walkPos, readable, rows,
             summaryBlock, prevRows>>
foldVars == <<acc, folded, finalized>>
keyVars == <<keyPath, keyBase, keyResult>>

---------------------------------------------------------------------------
(* Bounds                                                                  *)

MaxRoots == 2
MaxPatterns == 1
MaxFolds == 3
MaxDepth == 3

---------------------------------------------------------------------------
(* Option<T>                                                               *)

None == [some |-> FALSE, val |-> << >>]
Some(v) == [some |-> TRUE, val |-> v]

---------------------------------------------------------------------------
(* ByteSize                                                                *)

LIMB == 2 ^ 25

B(n) == <<0, n>>

Zero == B(0)

\* ByteSize::pib(1) = 2^50 bytes
PIB == <<LIMB, 0>>

\* impl AddAssign for ByteSize: self.0 += rhs.0
BsAdd(a, b) ==
    LET lo == a[2] + b[2]
    IN  <<a[1] + b[1] + (lo \div LIMB), lo % LIMB>>

\* the derived PartialOrd of ByteSize: the order of the u64
BsLt(a, b) == a[1] < b[1] \/ (a[1] = b[1] /\ a[2] < b[2])

BsLe(a, b) == a = b \/ BsLt(a, b)

\* (total as f64 / count as f64) as u64 for count > 0: exact below 2^53
BsDiv(a, c) ==
    LET r == a[1] % c
    IN  <<a[1] \div c, (r * LIMB + a[2]) \div c>>

\* n * a for a small n, used to state properties
BsTimes(n, a) ==
    LET lo == n * a[2]
    IN  <<n * a[1] + (lo \div LIMB), lo % LIMB>>

---------------------------------------------------------------------------
(* ChildSizeEntry                                                          *)

DefaultEntry ==
    [count |-> 0, total |-> Zero, average |-> Zero, max |-> Zero, min |-> PIB]

NewSummary ==
    [min |-> PIB, count |-> 0, total |-> Zero, average |-> Zero, max |-> Zero]

AddAssign(e, size) ==
    [count   |-> e.count + 1,
     total   |-> BsAdd(e.total, size),
     average |-> e.average,
     max     |-> IF BsLt(e.max, size) THEN size ELSE e.max,
     min     |-> IF BsLt(size, e.min) THEN size ELSE e.min]

\* a finalize that divides without the float's NaN: leaves the total in place
UpdateAverageNoDivide(e) == [e EXCEPT !.average = e.total]

\* count = 0 comes with total = 0: 0.0 / 0.0 is NaN, and `NaN as u64` is 0
UpdateAverage(e) ==
    [e EXCEPT !.average = IF e.count = 0 THEN Zero ELSE BsDiv(e.total, e.count)]

---------------------------------------------------------------------------
(* Folding sizes into one accumulator                                      *)

Sizes == {B(0), B(10), B(30), PIB, BsAdd(PIB, B(1))}

FoldInit ==
    /\ acc = DefaultEntry
    /\ folded = << >>
    /\ finalized = FALSE

Fold(size) ==
    /\ Len(folded) < MaxFolds
    /\ acc' = AddAssign(acc, size)
    /\ folded' = Append(folded, size)
    /\ finalized' = FALSE

Finalize ==
    /\ ~finalized
    /\ acc' = UpdateAverage(acc)
    /\ finalized' = TRUE
    /\ UNCHANGED folded

---------------------------------------------------------------------------
(* std::path::Path on token strings                                        *)

Front(s) == SubSeq(s, 1, Len(s) - 1)

Last(s) == s[Len(s)]

IsSep(t) == t = "/"

NotSep(t) == t # "/"

\* Path::components: a leading separator is the RootDir component (kept as "/"),
\* repeated and trailing separators are dropped
Components(s) ==
    IF s # << >> /\ IsSep(s[1])
    THEN <<"/">> \o SelectSeq(Tail(s), NotSep)
    ELSE SelectSeq(s, NotSep)

IsPrefix(b, p) == Len(b) <= Len(p) /\ SubSeq(p, 1, Len(b)) = b

\* the string of a component sequence, separators between the components
RECURSIVE PathStr(_)
PathStr(c) ==
    IF c = << >> THEN << >>
    ELSE IF Len(c) = 1 THEN c
    ELSE IF IsSep(c[1]) THEN <<"/">> \o PathStr(Tail(c))
    ELSE <<c[1], "/">> \o PathStr(Tail(c))

\* Path::strip_prefix: the components after those of base, or Err (None)
StripPrefix(path, base) ==
    LET p == Components(path)
        b == Components(base)
    IN  IF IsPrefix(b, p) THEN Some(SubSeq(p, Len(b) + 1, Len(p))) ELSE None

\* Path::parent of a component sequence: None for the empty path and for a root
Parent(r) ==
    IF r = << >> \/ r = <<"/">> THEN None ELSE Some(Front(r))

\* Path::join (PathBuf::push): an absolute rel replaces base, a separator is
\* added unless base is empty or ends with one
Join(base, rel) ==
    IF rel # << >> /\ IsSep(rel[1]) THEN rel
    ELSE IF base = << >> THEN rel
    ELSE IF IsSep(Last(base)) THEN base \o rel
    ELSE base \o <<"/">> \o rel

\* a key that keeps only the first segment under the root
KeyFirstSegment(path, base) ==
    LET r == StripPrefix(path, base)
    IN  IF ~r.some THEN None
        ELSE LET parent == Parent(r.val)
             IN  IF ~parent.some THEN Some(base)
                 ELSE IF parent.val = << >> THEN Some(base)
                 ELSE Some(Join(base, <<parent.val[1]>>))

\* a key that falls back to the base for a path outside it
KeyFallbackBase(path, base) ==
    LET r == StripPrefix(path, base)
    IN  IF ~r.some THEN Some(base)
        ELSE LET parent == Parent(r.val)
             IN  IF ~parent.some THEN Some(base)
                 ELSE IF parent.val = << >> THEN Some(base)
                 ELSE Some(Join(base, PathStr(parent.val)))

\* Processor::key
Key(path, base) ==
    LET r == StripPrefix(path, base)
    IN  IF ~r.some THEN None
        ELSE LET parent == Parent(r.val)
             IN  IF ~parent.some THEN Some(base)
                 ELSE IF parent.val = << >> THEN Some(base)
                 ELSE Some(Join(base, PathStr(parent.val)))

\* Option::unwrap_or_default on Option<String>: the empty string for None
UnwrapOrDefault(o) == IF o.some THEN o.val ELSE << >>

---------------------------------------------------------------------------
(* Processor::key and filefold's use of it, called on any path and base    *)

Names == {"test", "test2", "1", "5.txt"}

SeqsUpTo(S, n) == UNION {[1..k -> S] : k \in 0..n}

AbsStr(c) == PathStr(<<"/">> \o c)

\* absolute file paths of up to MaxDepth + 1 components
KeyPaths == {AbsStr(c) : c \in SeqsUpTo(Names, MaxDepth + 1) \ {<< >>}}

\* the empty base, "/", and directories of up to two components, each with and
\* without a trailing separator
KeyBases ==
    {<< >>, <<"/">>}
        \cup {AbsStr(c) : c \in SeqsUpTo(Names, 2) \ {<< >>}}
        \cup {AbsStr(c) \o <<"/">> : c \in SeqsUpTo(Names, 2) \ {<< >>}}

---------------------------------------------------------------------------
(* globset                                                                 *)

Globs == {"*.txt", "*.log", "["}

Extension(name) ==
    CASE name = "5.txt" -> "txt"
      [] name = "6.log" -> "log"
      [] OTHER -> ""

\* Glob::new: "[" is an unclosed character class, the other patterns compile
GlobNew(g) == IF g = "[" THEN None ELSE Some(g)

\* a compiled glob against a file name
GlobMatches(g, name) ==
    CASE g = "*.txt" -> Extension(name) = "txt"
      [] g = "*.log" -> Extension(name) = "log"
      [] g = "*" -> TRUE
      [] OTHER -> FALSE

\* a builder that drops the patterns that do not compile
BuildGlobSetSkipInvalid(patterns) ==
    Some({patterns[i] : i \in {j \in DOMAIN patterns : GlobNew(patterns[j]).some}})

\* the builder loop of walktrees and of main: unwrap panics (None) on the first
\* pattern that does not compile
BuildGlobSet(patterns) ==
    IF \E i \in DOMAIN patterns : ~GlobNew(patterns[i]).some
    THEN None
    ELSE Some({GlobNew(patterns[i]).val : i \in DOMAIN patterns})

\* GlobSet::is_match: some glob of the set matches; an empty set matches nothing
IsMatch(gs, name) == \E g \in gs : GlobMatches(g, name)

---------------------------------------------------------------------------
(* The file system and walkdir                                             *)

\* the tree, in walkdir's order (a directory before its contents)
Tree ==
    << [comps |-> <<"/", "test">>,                  is_file |-> FALSE, size |-> B(0)],
       [comps |-> <<"/", "test", "5.txt">>,         is_file |-> TRUE,  size |-> B(30)],
       [comps |-> <<"/", "test", "1">>,             is_file |-> FALSE, size |-> B(0)],
       [comps |-> <<"/", "test", "1", "5.txt">>,    is_file |-> TRUE,  size |-> B(10)],
       [comps |-> <<"/", "test", "1", "6.log">>,    is_file |-> TRUE,  size |-> B(10)],
       [comps |-> <<"/", "test", "1", "2">>,        is_file |-> FALSE, size |-> B(0)],
       [comps |-> <<"/", "test", "1", "2", "5.txt">>, is_file |-> TRUE, size |-> B(20)] >>

\* the roots a run may be given
Roots == {<<"/", "test", "/">>, <<"/", "test", "/", "1">>, <<"/", "test", "/", "5.txt">>}

\* files that may vanish between the directory read and the metadata read
Flaky == {<<"/", "test", "1", "6.log">>}

UnderRoot(node, root) == IsPrefix(Components(root), node.comps)

\* the DirEntry walkdir yields for a node: the root keeps the path it was given,
\* a node below it gets the root joined with its relative path
DirEntryOf(node, root) ==
    LET rel == SubSeq(node.comps, Len(Components(root)) + 1, Len(node.comps))
    IN  [path      |-> IF rel = << >> THEN root ELSE Join(root, PathStr(rel)),
         comps     |-> node.comps,
         file_name |-> Last(node.comps),
         is_file   |-> node.is_file,
         size      |-> node.size]

RECURSIVE WalkFrom(_, _)
WalkFrom(root, i) ==
    IF i > Len(Tree) THEN << >>
    ELSE (IF UnderRoot(Tree[i], root) THEN <<DirEntryOf(Tree[i], root)>> ELSE << >>)
             \o WalkFrom(root, i + 1)

WalkOf == [root \in Roots |-> WalkFrom(root, 1)]

\* WalkDir::new(path).same_file_system(true).into_iter().flatten()
WalkDir(root) == WalkOf[root]

---------------------------------------------------------------------------
(* Processor                                                               *)

SortModes == {"Count", "Total", "Average", "Max", "Min"}

OptsSet ==
    [paths        : SeqsUpTo(Roots, MaxRoots),
     patterns     : SeqsUpTo(Globs, MaxPatterns),
     sort         : SortModes,
     reverse      : BOOLEAN,
     show_summary : BOOLEAN]

EmptyMap == << >>

\* HashMap::entry(key).or_default()
OrDefault(map, key) == IF key \in DOMAIN map THEN map[key] ELSE DefaultEntry

\* HashMap::insert, and the write through the entry: key now maps to e
Put(map, key, e) ==
    [k \in DOMAIN map \cup {key} |-> IF k = key THEN e ELSE map[k]]

\* Processor::filefold on st = [entries, summary]; metaOk: e.metadata() is Ok
FileFold(st, e, base, gs, metaOk) ==
    IF e.is_file /\ IsMatch(gs, e.file_name)
    THEN LET key == UnwrapOrDefault(Key(e.path, base))
         IN  IF metaOk
             THEN [entries |-> Put(st.entries, key,
                                   AddAssign(OrDefault(st.entries, key), e.size)),
                   summary |-> AddAssign(st.summary, e.size)]
             ELSE st
    ELSE st

\* the comparison on the count alone, whatever the mode
OrderingByCount(mode, a, b) ==
    IF a.count < b.count THEN "Less"
    ELSE IF a.count = b.count THEN "Equal" ELSE "Greater"

BsCmp(x, y) == IF BsLt(x, y) THEN "Less" ELSE IF x = y THEN "Equal" ELSE "Greater"

\* SortMode::ordering applied to the entries of two rows
Ordering(mode, a, b) ==
    CASE mode = "Count"   -> IF a.count < b.count THEN "Less"
                             ELSE IF a.count = b.count THEN "Equal" ELSE "Greater"
      [] mode = "Average" -> BsCmp(a.average, b.average)
      [] mode = "Total"   -> BsCmp(a.total, b.total)
      [] mode = "Max"     -> BsCmp(a.max, b.max)
      [] mode = "Min"     -> BsCmp(a.min, b.min)

RECURSIVE SortedInsert(_, _, _, _)
SortedInsert(s, k, mode, es) ==
    IF s = << >> THEN <<k>>
    ELSE IF Ordering(mode, es[k], es[Head(s)]) = "Less" THEN <<k>> \o s
    ELSE <<Head(s)>> \o SortedInsert(Tail(s), k, mode, es)

\* sort_unstable_by on the keys in iteration order: equal rows may come out in
\* any order, and so they do here, the iteration order being any order
RECURSIVE SortUnstableBy(_, _, _)
SortUnstableBy(s, mode, es) ==
    IF s = << >> THEN << >>
    ELSE SortedInsert(SortUnstableBy(Front(s), mode, es), Last(s), mode, es)

Reverse(s) == [i \in 1..Len(s) |-> s[Len(s) + 1 - i]]

\* the orders in which a HashMap with these keys may be iterated
RECURSIVE IterOrders(_)
IterOrders(keys) ==
    IF keys = {} THEN {<< >>}
    ELSE UNION {{<<k>> \o o : o \in IterOrders(keys \ {k})} : k \in keys}

\* impl Display for ChildSizeEntry: count, total, average, max, and the label
Row(e, label) ==
    [count |-> e.count, total |-> e.total, average |-> e.average, max |-> e.max,
     label |-> label]

\* Processor::new(opts)
Init ==
    /\ opts \in OptsSet
    /\ pc = "new"
    /\ globset = {}
    /\ summary = NewSummary
    /\ entries = EmptyMap
    /\ rootIdx = 0
    /\ walkPos = 0
    /\ readable = 0
    /\ rows = << >>
    /\ summaryBlock = None
    /\ prevRows = None
    /\ acc = DefaultEntry
    /\ folded = << >>
    /\ finalized = FALSE
    /\ keyPath = << >>
    /\ keyBase = << >>
    /\ keyResult = None

\* Processor::walktrees up to its first walktree: the GlobSet is built
WalkTreesStart ==
    /\ pc = "new"
    /\ LET built == BuildGlobSet(opts.patterns)
       IN  IF ~built.some
           THEN /\ pc' = "panicked"
                /\ UNCHANGED <<globset, rootIdx, walkPos>>
           ELSE /\ globset' = built.val
                /\ pc' = IF opts.paths = << >> THEN "walked" ELSE "walking"
                /\ rootIdx' = 1
                /\ walkPos' = 1
    /\ UNCHANGED <<opts, summary, entries, readable, rows, summaryBlock, prevRows>>
    /\ UNCHANGED <<foldVars, keyVars>>

\* one iteration of walktree's loop: filefold on the next entry of the walk
FileFoldStep ==
    /\ pc = "walking"
    /\ walkPos <= Len(WalkDir(opts.paths[rootIdx]))
    /\ LET base == opts.paths[rootIdx]
           e == WalkDir(base)[walkPos]
       IN  \E metaOk \in (IF e.comps \in Flaky THEN BOOLEAN ELSE {TRUE}) :
              LET st == FileFold([entries |-> entries, summary |-> summary],
                                 e, base, globset, metaOk)
              IN  /\ entries' = st.entries
                  /\ summary' = st.summary
                  /\ readable' = IF e.is_file /\ metaOk THEN readable + 1 ELSE readable
    /\ walkPos' = walkPos + 1
    /\ UNCHANGED <<pc, opts, globset, rootIdx, rows, summaryBlock, prevRows>>
    /\ UNCHANGED <<foldVars, keyVars>>

\* the walk of a root is over: walktrees goes to the next path, or returns
WalkTreeDone ==
    /\ pc = "walking"
    /\ walkPos > Len(WalkDir(opts.paths[rootIdx]))
    /\ IF rootIdx = Len(opts.paths)
       THEN pc' = "walked" /\ UNCHANGED <<rootIdx, walkPos>>
       ELSE pc' = pc /\ rootIdx' = rootIdx + 1 /\ walkPos' = 1
    /\ UNCHANGED <<opts, globset, summary, entries, readable, rows, summaryBlock, prevRows>>
    /\ UNCHANGED <<foldVars, keyVars>>

\* the body of process: averages, sort, reverse, rows, summary block
Report ==
    LET es == [k \in DOMAIN entries |-> UpdateAverage(entries[k])]
    IN  /\ entries' = es
        /\ \E order \in IterOrders(DOMAIN entries) :
              LET sorted == SortUnstableBy(order, opts.sort, es)
                  out == IF opts.reverse THEN Reverse(sorted) ELSE sorted
              IN  rows' = [i \in 1..Len(out) |-> Row(es[out[i]], out[i])]
        /\ IF opts.show_summary
           THEN /\ summary' = UpdateAverage(summary)
                /\ summaryBlock' = Some(Row(UpdateAverage(summary), <<"SUMMARY">>))
           ELSE /\ summary' = summary
                /\ summaryBlock' = None

\* Processor::process; run again on the same entries it is a second run of the
\* report step, whose HashMap iterates in an order of its own
Process ==
    /\ pc = "walked" \/ (pc = "reported" /\ ~prevRows.some)
    /\ Report
    /\ prevRows' = IF pc = "reported" THEN Some(rows) ELSE None
    /\ pc' = "reported"
    /\ UNCHANGED <<opts, globset, rootIdx, walkPos, readable>>
    /\ UNCHANGED <<foldVars, keyVars>>

Next == WalkTreesStart \/ FileFoldStep \/ WalkTreeDone \/ Process

Spec == Init /\ [][Next]_vars

---------------------------------------------------------------------------
(* The accumulator alone: any sequence of sizes folded into a fresh entry  *)

IdleRun ==
    /\ opts = [paths |-> << >>, patterns |-> << >>, sort |-> "Count",
               reverse |-> FALSE, show_summary |-> FALSE]
    /\ globset = {}
    /\ summary = NewSummary
    /\ entries = EmptyMap
    /\ rootIdx = 0
    /\ walkPos = 0
    /\ readable = 0
    /\ rows = << >>
    /\ summaryBlock = None
    /\ prevRows = None

IdleKey ==
    /\ keyPath = << >>
    /\ keyBase = << >>
    /\ keyResult = None

FoldSpecInit == pc = "fold" /\ IdleRun /\ FoldInit /\ IdleKey

FoldStep == (\E size \in Sizes : Fold(size)) /\ UNCHANGED <<runVars, keyVars>>

FinalizeStep == Finalize /\ UNCHANGED <<runVars, keyVars>>

FoldNext == FoldStep \/ FinalizeStep

FoldSpec == FoldSpecInit /\ [][FoldNext]_vars

---------------------------------------------------------------------------
(* key and filefold called on any file path and any base                   *)

KeySpecInit ==
    /\ pc = "probe"
    /\ keyPath \in KeyPaths
    /\ keyBase \in KeyBases
    /\ keyResult = None
    /\ IdleRun
    /\ FoldInit

\* Processor::key(path, base)
KeyCall ==
    /\ pc = "probe"
    /\ keyResult' = Key(keyPath, keyBase)
    /\ pc' = "keyed"
    /\ UNCHANGED <<keyPath, keyBase, opts, globset, summary, entries, rootIdx, walkPos,
                   readable, rows, summaryBlock, prevRows, foldVars>>

\* filefold on a fresh Processor for the regular file at keyPath, a GlobSet that
\* matches it, and keyBase as the base
FileFoldCall ==
    /\ pc = "keyed"
    /\ LET e == [path |-> keyPath, comps |-> Components(keyPath),
                 file_name |-> Last(keyPath), is_file |-> TRUE, size |-> B(10)]
           st == FileFold([entries |-> entries, summary |-> summary],
                          e, keyBase, {"*"}, TRUE)
       IN  /\ entries' = st.entries
           /\ summary' = st.summary
    /\ pc' = "folded"
    /\ UNCHANGED <<keyVars, opts, globset, rootIdx, walkPos, readable, rows,
                   summaryBlock, prevRows, foldVars>>

KeyNext == KeyCall \/ FileFoldCall

KeySpec == KeySpecInit /\ [][KeyNext]_vars

---------------------------------------------------------------------------
(* main.rs: the driver that merges one map per root                        *)

\* filefold over the entries of a walk from position i on
RECURSIVE FoldWalk(_, _, _, _, _, _)
FoldWalk(st, walk, i, base, gs, unreadable) ==
    IF i > Len(walk) THEN st
    ELSE FoldWalk(FileFold(st, walk[i], base, gs, walk[i].comps \notin unreadable),
                  walk, i + 1, base, gs, unreadable)

\* walktree(&path, &globset): a fresh map of the root's accumulators; the summary
\* is the process-wide accumulator, folded in the innermost step
WalkTree(path, gs, summ, unreadable) ==
    FoldWalk([entries |-> EmptyMap, summary |-> summ], WalkDir(path), 1, path, gs,
             unreadable)

\* for (k, v) in map { entries.insert(k, v) }
InsertAll(into, map) ==
    [k \in DOMAIN into \cup DOMAIN map |-> IF k \in DOMAIN map THEN map[k] ELSE into[k]]

FilesReadable(path, unreadable) ==
    Cardinality({i \in DOMAIN WalkDir(path) :
                    WalkDir(path)[i].is_file /\ WalkDir(path)[i].comps \notin unreadable})

\* main after Opts::parse and HashMap::new
MainInit ==
    /\ opts \in OptsSet
    /\ pc = "main"
    /\ globset = {}
    /\ summary = NewSummary
    /\ entries = EmptyMap
    /\ rootIdx = 0
    /\ walkPos = 0
    /\ readable = 0
    /\ rows = << >>
    /\ summaryBlock = None
    /\ prevRows = None
    /\ FoldInit
    /\ IdleKey

\* main's builder loop and build
MainBuildGlobSet ==
    /\ pc = "main"
    /\ LET built == BuildGlobSet(opts.patterns)
       IN  IF ~built.some
           THEN pc' = "panicked" /\ UNCHANGED <<globset, rootIdx>>
           ELSE globset' = built.val /\ pc' = "mainloop" /\ rootIdx' = 1
    /\ UNCHANGED <<opts, summary, entries, walkPos, readable, rows, summaryBlock,
                   prevRows, foldVars, keyVars>>

\* one iteration of main's loop over opts.paths
MainWalkTree ==
    /\ pc = "mainloop"
    /\ rootIdx <= Len(opts.paths)
    /\ \E unreadable \in SUBSET Flaky :
          LET path == opts.paths[rootIdx]
              st == WalkTree(path, globset, summary, unreadable)
          IN  /\ entries' = InsertAll(entries, st.entries)
              /\ summary' = st.summary
              /\ readable' = readable + FilesReadable(path, unreadable)
    /\ rootIdx' = rootIdx + 1
    /\ UNCHANGED <<pc, opts, globset, walkPos, rows, summaryBlock, prevRows,
                   foldVars, keyVars>>

\* process(opts.sort, opts.reverse, opts.show_summary, entries)
MainProcess ==
    /\ pc = "mainloop"
    /\ rootIdx > Len(opts.paths)
    /\ Report
    /\ pc' = "reported"
    /\ UNCHANGED <<opts, globset, rootIdx, walkPos, readable, prevRows, foldVars, keyVars>>

MainNext == MainBuildGlobSet \/ MainWalkTree \/ MainProcess

MainSpec == MainInit /\ [][MainNext]_vars

---------------------------------------------------------------------------
(* Properties                                                              *)

RECURSIVE SumSizes(_)
SumSizes(sizes) ==
    IF sizes = << >> THEN Zero ELSE BsAdd(SumSizes(Front(sizes)), Last(sizes))

RECURSIVE SumCounts(_, _)
SumCounts(map, keys) ==
    IF keys = {} THEN 0
    ELSE LET k == CHOOSE x \in keys : TRUE
         IN  map[k].count + SumCounts(map, keys \ {k})

RECURSIVE SumTotals(_, _)
SumTotals(map, keys) ==
    IF keys = {} THEN Zero
    ELSE LET k == CHOOSE x \in keys : TRUE
         IN  BsAdd(map[k].total, SumTotals(map, keys \ {k}))

\* the walk only hands filefold paths under its base, and an accumulator
\* without folds has a zero total
WalkStaysUnderRoot ==
    /\ pc = "walking" =>
          \A i \in DOMAIN WalkDir(opts.paths[rootIdx]) :
             Key(WalkDir(opts.paths[rootIdx])[i].path, opts.paths[rootIdx]).some
    /\ summary.count = 0 => summary.total = Zero
    /\ acc.count = 0 => acc.total = Zero

\* C1: after any sequence of folds into a fresh accumulator, count is the number
\* of folds, total the sum of the folded sizes, max the largest and min the
\* smallest folded size
FoldTracksSizes ==
    /\ acc.count = Len(folded)
    /\ acc.total = SumSizes(folded)
    /\ folded # << >> =>
          /\ \E i \in DOMAIN folded : folded[i] = acc.max
          /\ \E i \in DOMAIN folded : folded[i] = acc.min
          /\ \A i \in DOMAIN folded : BsLe(acc.min, folded[i]) /\ BsLe(folded[i], acc.max)

\* what holds of the fold: count, total and max are exact, and min is the smallest
\* of the folded sizes and the 1 PiB sentinel
FoldTracksSizesUnderSentinel ==
    /\ acc.count = Len(folded)
    /\ acc.total = SumSizes(folded)
    /\ folded # << >> =>
          /\ \E i \in DOMAIN folded : folded[i] = acc.max
          /\ \A i \in DOMAIN folded : BsLe(acc.min, folded[i]) /\ BsLe(folded[i], acc.max)
    /\ BsLe(acc.min, PIB)
    /\ acc.min = PIB \/ \E i \in DOMAIN folded : folded[i] = acc.min

\* C2: the summary's count and total are the sums of the counts and totals of the
\* accumulators in the entry mapping, its max the largest of their max values and
\* its min the smallest of their min values
SummaryAggregatesEntries ==
    /\ summary.count = SumCounts(entries, DOMAIN entries)
    /\ summary.total = SumTotals(entries, DOMAIN entries)
    /\ DOMAIN entries # {} =>
          /\ \E k \in DOMAIN entries : entries[k].max = summary.max
          /\ \A k \in DOMAIN entries : BsLe(entries[k].max, summary.max)
          /\ \E k \in DOMAIN entries : entries[k].min = summary.min
          /\ \A k \in DOMAIN entries : BsLe(summary.min, entries[k].min)

\* C3: with an empty set of patterns every regular file the walk has visited (and
\* could read the size of) is folded into an accumulator and into the summary
NoPatternsFoldEveryFile ==
    opts.patterns = << >> =>
       /\ summary.count = readable
       /\ SumCounts(entries, DOMAIN entries) = readable

KeyCalled == pc \in {"keyed", "folded"}

KeyIsFirstLevelChild ==
    (KeyCalled /\ keyBase # << >>
        /\ IsPrefix(Components(keyBase), Components(keyPath))
        /\ Len(Components(keyPath)) >= Len(Components(keyBase)) + 2) =>
       keyResult = Some(Join(keyBase, <<Components(keyPath)[Len(Components(keyBase)) + 1]>>))

\* C6, as claimed: for a path not prefixed by the root, key yields no key and the
\* aggregation step records nothing for the file
OutsideRootNeverRecorded ==
    (KeyCalled /\ ~IsPrefix(Components(keyBase), Components(keyPath))) =>
       /\ keyResult = None
       /\ pc = "folded" => entries = EmptyMap /\ summary.count = 0

\* C6, amended: for a path not prefixed by the root, key yields no key, and the
\* aggregation step falls back to the empty string as the key and records the
\* file under it
OutsideRootFallsBackToEmptyKey ==
    (KeyCalled /\ ~IsPrefix(Components(keyBase), Components(keyPath))) =>
       /\ keyResult = None
       /\ pc = "folded" =>
             /\ DOMAIN entries = {<< >>}
             /\ entries[<< >>].count = 1
             /\ summary.count = 1

\* C6 witness: /test/1/5.txt against the base /test2/
OutsideRootWitness ==
    /\ pc = "folded"
    /\ keyPath = <<"/", "test", "/", "1", "/", "5.txt">>
    /\ keyBase = <<"/", "test2", "/">>
    /\ keyResult = None
    /\ << >> \in DOMAIN entries

\* C7: finalizing sets average to total / count truncated when count > 0, and to
\* zero when count = 0
FinalizedAverage ==
    finalized =>
       IF acc.count = 0
       THEN acc.average = Zero
       ELSE /\ BsLe(BsTimes(acc.count, acc.average), acc.total)
            /\ BsLt(acc.total, BsTimes(acc.count, BsAdd(acc.average, B(1))))

\* C7 witness: a fresh accumulator, nothing folded, finalized
FinalizedEmptyWitness ==
    finalized /\ acc.count = 0 /\ folded = << >> /\ acc.average = Zero

AverageOf(e) ==
    IF e.count = 0
    THEN e.average = Zero
    ELSE /\ BsLe(BsTimes(e.count, e.average), e.total)
         /\ BsLt(e.total, BsTimes(e.count, BsAdd(e.average, B(1))))

\* the same of the report: every row, and the summary block when it is shown,
\* carries the truncated quotient, zero for a summary without files
ReportedAverages ==
    pc = "reported" =>
       /\ \A k \in DOMAIN entries : AverageOf(entries[k])
       /\ opts.show_summary =>
             AverageOf(summary) /\ summaryBlock = Some(Row(summary, <<"SUMMARY">>))

FieldLe(mode, a, b) ==
    CASE mode = "Count"   -> a.count <= b.count
      [] mode = "Total"   -> BsLe(a.total, b.total)
      [] mode = "Average" -> BsLe(a.average, b.average)
      [] mode = "Max"     -> BsLe(a.max, b.max)
      [] mode = "Min"     -> BsLe(a.min, b.min)

DeterministicReport ==
    prevRows.some => rows = prevRows.val

====
